---- MODULE Spec2Model ----
(***************************************************************************)
(* A model of Turtle3D (src/Turtle3D.py): the entity registries of Light,  *)
(* Camera, Object and Scene, scene membership, and Scene.render_scene.     *)
(*                                                                         *)
(* An entity is identified by its index in its class-wide registry (the    *)
(* registries are append-only lists).  Index 0 stands for None.            *)
(* Vertices and positions are 3-tuples <<x, y, z>> of integers; angles are *)
(* multiples of 90 degrees, where sine and cosine are 0, 1 or -1.          *)
(* `err` holds the exception class an operation ended with ("ok" when it   *)
(* returned normally); `last` records the most recent call.                *)
(***************************************************************************)
EXTENDS Integers, Sequences, FiniteSets, TLC

VARIABLES
    lights,          \* Light._global_light_memory
    cameras,         \* Camera._global_memory
    objects,         \* Object._global_memory
    scenes,          \* Scene._global_scene_memory
    next_memory_id,  \* the class attribute _next_memory_id of each class
    bgcolor,         \* global_window.screen.bgcolor()
    calls,           \* drawing-surface calls issued by the latest render_scene
    last             \* the latest call: operation, arguments, outcome

vars == <<lights, cameras, objects, scenes, next_memory_id, bgcolor, calls, last>>

\* ---------------------------------------------------------------- bounds
MaxLights == 2
MaxCameras == 1
MaxObjects == 2
MaxScenes == 1
MMaxLights == 1
MMaxCameras == 2
MMaxObjects == 2
MMaxScenes == 2
RMaxObjects == 2
RMaxCameras == 1
RMaxScenes == 1
SMaxObjects == 1
SMaxCameras == 2
LMaxLights == 2
LMaxObjects == 1
LMaxCameras == 1
LMaxScenes == 1
PMaxCameras == 1
PMaxObjects == 1
PMaxSubjects == 1   \* cameras and objects together, in PoseSpec
PMaxTurns == 2      \* a camera's rotation stays within PMaxTurns quarter turns of 0
PMaxObjectTurns == 1   \* an object's rotation, likewise
PMaxCoord == 1      \* a coordinate of a position stays within PMaxCoord of 0
PMaxScale == 2      \* a scale factor stays within 1..PMaxScale

Names == {"a", "b"}
Kinds == {"Light", "Camera", "Object", "Scene"}

None == 0

\* ------------------------------------------------------------ exceptions
\* An exception class whose __init__ has `required` positional parameters
\* without default, raised with `given` arguments: Python raises TypeError
\* from the constructor call when an argument is missing.
RaiseWith(cls, required, given) == IF given >= required THEN cls ELSE "TypeError"

\* class DuplicateNameError: __init__(self, name, message = ...)
DuplicateNameError(given) == RaiseWith("DuplicateNameError", 1, given)

\* class AlreadyInSceneError: __init__(self, object_name, message = ...)
AlreadyInSceneError(given) == RaiseWith("AlreadyInSceneError", 1, given)

\* class IDNotFoundError: __init__(self, object_id, message = ...)
IDNotFoundError(given) == RaiseWith("IDNotFoundError", 1, given)

\* class NoActiveCamera: __init__(self, scene_name, message = ...)
NoActiveCamera(given) == RaiseWith("NoActiveCamera", 1, given)

\* class NoScenePermission: __init__(self, scene_name, scene_value, message = ...)
NoScenePermission(given) == RaiseWith("NoScenePermission", 2, given)

\* class Turtle3DError: __init__(self, message = ...)
Turtle3DError(given) == RaiseWith("Turtle3DError", 0, given)

\* The record of a call.  a, b: the entities it is about (registry indices);
\* name: a name argument; pre: the condition the call tested, evaluated in the
\* state before the call; errid: the id an IDNotFoundError carries.
Call(op, a, b, name, pre, err, errid) ==
    [op |-> op, a |-> a, b |-> b, name |-> name, pre |-> pre, err |-> err, errid |-> errid]

\* The record of a call that also keeps the arguments the claims are about
CallArgs(op, a, name, pre, err, args) ==
    [op |-> op, a |-> a, b |-> 0, name |-> name, pre |-> pre, err |-> err, errid |-> 0,
     args |-> args]

\* ------------------------------------------------------------ sequences
Range(s) == {s[i] : i \in DOMAIN s}

\* list.remove(x): drops the first element equal to x
RemoveFirst(s, x) ==
    LET i == CHOOSE k \in DOMAIN s : s[k] = x /\ \A j \in 1..(k - 1) : s[j] # x
    IN  [k \in 1..(Len(s) - 1) |-> IF k < i THEN s[k] ELSE s[k + 1]]

\* how many times x occurs in s
Count(s, x) == Cardinality({i \in DOMAIN s : s[i] = x})

\* --------------------------------------------------------- optional args
\* An optional argument is <<>> when omitted (None) and <<v>> when given.
IsNone(opt) == opt = <<>>

\* Python truthiness of an optional number: None and 0 are both false
Truthy(opt) == opt # <<>> /\ opt[1] # 0

\* ------------------------------------------------------------- geometry
\* math.sin / math.cos of math.radians(angle), for multiples of 90 degrees
Sin(angle) ==
    CASE angle % 360 = 0 -> 0
      [] angle % 360 = 90 -> 1
      [] angle % 360 = 180 -> 0
      [] angle % 360 = 270 -> -1

Cos(angle) ==
    CASE angle % 360 = 0 -> 1
      [] angle % 360 = 90 -> 0
      [] angle % 360 = 180 -> -1
      [] angle % 360 = 270 -> 0

\* Object._rotate_x: x is index 1, y index 2, z index 3 of a vertex
rotate_x(angle, vertex_array, pivot) ==
    [a \in DOMAIN vertex_array |->
        LET y == vertex_array[a][2] - pivot[2]
            z == vertex_array[a][3] - pivot[3]
        IN  << vertex_array[a][1],
               (y * Cos(angle) + z * Sin(angle)) + pivot[2],
               (z * Cos(angle) - y * Sin(angle)) + pivot[3] >>]

\* Object._rotate_y
rotate_y(angle, vertex_array, pivot) ==
    [a \in DOMAIN vertex_array |->
        LET x == vertex_array[a][1] - pivot[1]
            z == vertex_array[a][3] - pivot[3]
        IN  << (x * Cos(angle) + z * Sin(angle)) + pivot[1],
               vertex_array[a][2],
               (z * Cos(angle) - x * Sin(angle)) + pivot[3] >>]

\* Object._rotate_z
rotate_z(angle, vertex_array, pivot) ==
    [a \in DOMAIN vertex_array |->
        LET x == vertex_array[a][1] - pivot[1]
            y == vertex_array[a][2] - pivot[2]
        IN  << (x * Cos(angle) + y * Sin(angle)) + pivot[1],
               (y * Cos(angle) - x * Sin(angle)) + pivot[2],
               vertex_array[a][3] >>]

RECURSIVE SumAxis(_, _, _)
SumAxis(vertex_array, axis, n) ==
    IF n = 0 THEN 0 ELSE vertex_array[n][axis] + SumAxis(vertex_array, axis, n - 1)

\* Object._center_vertex_array with current_centroid omitted.  The meshes of
\* the model have coordinate sums divisible by the vertex count, so that the
\* division is exact.
center_vertex_array(vertex_array, new_centroid) ==
    IF Len(vertex_array) = 0 THEN <<>>
    ELSE LET num_vertices == Len(vertex_array)
             current_centroid == [axis \in 1..3 |->
                 SumAxis(vertex_array, axis, num_vertices) \div num_vertices]
             d == [axis \in 1..3 |-> new_centroid[axis] - current_centroid[axis]]
         IN  [a \in DOMAIN vertex_array |->
                 << vertex_array[a][1] + d[1], vertex_array[a][2] + d[2],
                    vertex_array[a][3] + d[3] >>]

\* Object._update_translated_vertices: the stored z is subtracted
update_translated_vertices(obj) ==
    [obj EXCEPT !.translated_vertex_array =
        [i \in DOMAIN obj.transformed_vertex_array |->
            LET vertex == obj.transformed_vertex_array[i]
            IN  << vertex[1] + obj.position[1], vertex[2] + obj.position[2],
                   vertex[3] - obj.position[3] >>]]

\* update_transformed_vertices with the rotations in the order z, y, x
update_transformed_vertices_zyx(obj) ==
    LET scaled == [i \in DOMAIN obj.original_vertex_array |->
                     LET v == obj.original_vertex_array[i]
                     IN  << v[1] * obj.scale[1], v[2] * obj.scale[2], v[3] * obj.scale[3] >>]
        rz == rotate_z(obj.rotation[3], scaled, <<0, 0, 0>>)
        ry == rotate_y(obj.rotation[2], rz, <<0, 0, 0>>)
        rx == rotate_x(obj.rotation[1], ry, <<0, 0, 0>>)
    IN  update_translated_vertices([obj EXCEPT !.transformed_vertex_array = rx])

\* Object._update_transformed_vertices: scale, rotate x, y, z about the local
\* origin, then _update_translated_vertices
update_transformed_vertices(obj) ==
    LET scaled == [i \in DOMAIN obj.original_vertex_array |->
                     LET v == obj.original_vertex_array[i]
                     IN  << v[1] * obj.scale[1], v[2] * obj.scale[2], v[3] * obj.scale[3] >>]
        rx == rotate_x(obj.rotation[1], scaled, <<0, 0, 0>>)
        ry == rotate_y(obj.rotation[2], rx, <<0, 0, 0>>)
        rz == rotate_z(obj.rotation[3], ry, <<0, 0, 0>>)
    IN  update_translated_vertices([obj EXCEPT !.transformed_vertex_array = rz])

\* The loop over camera.rotation_order of get_distance_to_camera and _render:
\* the translated vertices rotated by the negated camera rotation about the
\* camera position, one axis per step
RECURSIVE camera_rotate(_, _, _)
camera_rotate(vertex_array, camera, k) ==
    IF k = 0 THEN vertex_array
    ELSE LET prev == camera_rotate(vertex_array, camera, k - 1)
             step == camera.rotation_order[k]
         IN  CASE step = "x" -> rotate_x(0 - camera.rotation[1], prev, camera.position)
               [] step = "y" -> rotate_y(0 - camera.rotation[2], prev, camera.position)
               [] step = "z" -> rotate_z(0 - camera.rotation[3], prev, camera.position)
               [] OTHER -> prev

\* camera_perspective that starts from the scratch buffer of the last call,
\* when there is one
camera_perspective_cached(obj, camera) ==
    camera_rotate(IF obj.camera_perspective_vertex_array = <<>>
                  THEN obj.translated_vertex_array
                  ELSE obj.camera_perspective_vertex_array,
                  camera, Len(camera.rotation_order))

\* Lines 680-685 and 1087-1092: the scratch buffer starts as a deep copy of
\* the translated buffer
camera_perspective(obj, camera) ==
    camera_rotate(obj.translated_vertex_array, camera, Len(camera.rotation_order))

\* The radicand dx + dy + dz of one vertex in get_distance_to_camera
DistSq(vertex, camera_position) ==
      (vertex[1] - camera_position[1]) * (vertex[1] - camera_position[1])
    + (vertex[2] - camera_position[2]) * (vertex[2] - camera_position[2])
    + (vertex[3] - camera_position[3]) * (vertex[3] - camera_position[3])

\* The value Object.get_distance_to_camera returns: distances[0] after
\* distances.sort(), the least distance over the camera-space vertices.
\* math.sqrt is strictly increasing on the integers of the model, so the
\* radicand stands for the distance: it orders the objects as the distance
\* does.  (The meshes of the model are not empty.)
distance_to_camera(obj, camera) ==
    LET cpva == camera_perspective(obj, camera)
        distances == {DistSq(cpva[i], camera.position) : i \in DOMAIN cpva}
    IN  CHOOSE d \in distances : \A e \in distances : d <= e

\* Object.get_distance_to_camera(camera): stores the scratch buffer in the
\* object and returns the distance
Object_get_distance_to_camera(o, c) ==
    /\ objects' = [objects EXCEPT ![o].camera_perspective_vertex_array =
                       camera_perspective(objects[o], cameras[c])]
    /\ last' = CallArgs("Object.get_distance_to_camera", o, "", FALSE, "ok",
                        [camera |-> c, distance |-> distance_to_camera(objects[o], cameras[c])])
    /\ UNCHANGED <<lights, cameras, scenes, next_memory_id, bgcolor, calls>>

\* ------------------------------------------------------------- registry
\* NameTaken without the test: every name passes
NameTaken_never(memory, name) == FALSE

\* any(x._name == name for x in <registry>): the test of every constructor
\* and of every change_name
NameTaken(memory, name) == \E i \in DOMAIN memory : memory[i].name = name

\* any(obj._name == object._name for obj in self._object_memory), and the
\* same test on self._light_memory: membership is tested by name
NameInMemory(registry, memory, name) ==
    \E k \in DOMAIN memory : registry[memory[k]].name = name

\* list_remove that ignores an absent element instead of raising
list_remove_silent(list, x) ==
    [raised |-> FALSE, list |-> IF x \in Range(list) THEN RemoveFirst(list, x) ELSE list]

\* list.remove(x) inside try: ValueError when x is not in the list
list_remove(list, x) ==
    IF x \in Range(list)
        THEN [raised |-> FALSE, list |-> RemoveFirst(list, x)]
        ELSE [raised |-> TRUE, list |-> list]

\* self._id = self._next_memory_id: the instance has no such attribute yet,
\* so the class attribute is read
NewId(kind) == next_memory_id[kind]

\* self._next_memory_id += 1: an augmented assignment through self reads the
\* class attribute and binds the sum to an attribute of the instance; the
\* class attribute keeps its value
ClassCounterAfterInit(kind) == next_memory_id

InstanceCounterAfterInit(kind) == next_memory_id[kind] + 1

\* Material(): __init__(self, name, ambient_color = None, ...) has one
\* required parameter
MaterialCallMissesArgs(given) == given < 1

IntensityOne == 10   \* intensity 1.0, in tenths

\* Material.__init__: omitted colours default to white; a specular
\* coefficient that is None or 0 becomes 10.0
Material_init(name, ambient_color, diffuse_color, specular_color, specular_coefficient) ==
    [name |-> name,
     ambient_color |-> IF IsNone(ambient_color) THEN <<255, 255, 255>> ELSE ambient_color,
     diffuse_color |-> IF IsNone(diffuse_color) THEN <<255, 255, 255>> ELSE diffuse_color,
     specular_color |-> IF IsNone(specular_color) THEN <<255, 255, 255>> ELSE specular_color,
     specular_coefficient |-> IF Truthy(specular_coefficient) THEN specular_coefficient[1]
                              ELSE 10]

White == <<255, 255, 255>>

\* ---------------------------------------------------------- constructors
\* Light.__init__(name, position, color = None, intensity = None)
Light_init(name, position, color, intensity) ==
    IF NameTaken(lights, name)
    THEN /\ last' = CallArgs("Light.__init__", 0, name, TRUE, DuplicateNameError(0),
                             [position |-> position, color |-> color, intensity |-> intensity])
         /\ UNCHANGED <<lights, cameras, objects, scenes, next_memory_id, bgcolor, calls>>
    ELSE /\ lights' = Append(lights,
                [name |-> name,
                 position |-> position,
                 color |-> IF color # <<>> THEN color ELSE White,
                 intensity |-> IF Truthy(intensity) THEN intensity[1] ELSE IntensityOne,
                 scenes |-> <<>>,
                 id |-> NewId("Light"),
                 next_memory_id |-> InstanceCounterAfterInit("Light")])
         /\ next_memory_id' = ClassCounterAfterInit("Light")
         /\ last' = CallArgs("Light.__init__", Len(lights) + 1, name, FALSE, "ok",
                             [position |-> position, color |-> color, intensity |-> intensity])
         /\ UNCHANGED <<cameras, objects, scenes, bgcolor, calls>>

\* Scene.__init__(name, ambient_light = None)
Scene_init(name, ambient_light) ==
    IF NameTaken(scenes, name)
    THEN /\ last' = Call("Scene.__init__", 0, 0, name, TRUE, DuplicateNameError(0), 0)
         /\ UNCHANGED <<lights, cameras, objects, scenes, next_memory_id, bgcolor, calls>>
    ELSE /\ scenes' = Append(scenes,
                [ambient_light |-> IF IsNone(ambient_light) THEN <<25, 25, 25>>
                                   ELSE ambient_light,
                 name |-> name,
                 object_memory |-> <<>>,
                 light_memory |-> <<>>,
                 active_camera |-> None,
                 id |-> NewId("Scene"),
                 next_memory_id |-> InstanceCounterAfterInit("Scene")])
         /\ next_memory_id' = ClassCounterAfterInit("Scene")
         /\ last' = Call("Scene.__init__", Len(scenes) + 1, 0, name, FALSE, "ok", 0)
         /\ UNCHANGED <<lights, cameras, objects, bgcolor, calls>>

\* Camera.__init__.  near_plane and far_plane are always given in the model
\* (the default near plane, 0.1, is no integer).  Line 419 clears z_clamp
\* when y_clamp is omitted.
Camera_init(name, position, rotation, near_plane, far_plane, rotation_order, x_clamp, y_clamp, z_clamp) ==
    IF NameTaken(cameras, name)
    THEN /\ last' = Call("Camera.__init__", 0, 0, name, TRUE, DuplicateNameError(0), 0)
         /\ UNCHANGED <<lights, cameras, objects, scenes, next_memory_id, bgcolor, calls>>
    ELSE /\ cameras' = Append(cameras,
                [name |-> name,
                 position |-> IF IsNone(position) THEN <<0, 0, 0>> ELSE position,
                 rotation |-> IF IsNone(rotation) THEN <<0, 0, 0>> ELSE rotation,
                 near_plane |-> near_plane,
                 far_plane |-> far_plane,
                 rotation_order |-> IF IsNone(rotation_order) THEN <<"y", "x", "z">>
                                    ELSE rotation_order,
                 x_clamp |-> x_clamp,
                 y_clamp |-> y_clamp,
                 z_clamp |-> IF IsNone(y_clamp) THEN <<>> ELSE z_clamp,
                 id |-> NewId("Camera"),
                 next_memory_id |-> InstanceCounterAfterInit("Camera")])
         /\ next_memory_id' = ClassCounterAfterInit("Camera")
         /\ last' = Call("Camera.__init__", Len(cameras) + 1, 0, name, FALSE, "ok", 0)
         /\ UNCHANGED <<lights, objects, scenes, bgcolor, calls>>

\* Object.__init__.  scale is a list of three numbers in the model; material
\* is <<>> (None) or <<m>>.  The default material is built by Material(),
\* before the name is tested.
Object_init(name, vertex_array, face_array, position, rotation, scale, material, visible) ==
    LET pos == IF IsNone(position) THEN <<0, 0, 0>> ELSE position
        centered == center_vertex_array(vertex_array, <<0, 0, 0>>)
        obj == [name |-> name,
                face_array |-> face_array,
                original_vertex_array |-> centered,
                transformed_vertex_array |-> centered,
                translated_vertex_array |-> centered,
                camera_perspective_vertex_array |-> <<>>,   \* None
                face_normals |-> <<>>,                      \* not set yet
                position |-> <<pos[1], pos[2], 0 - pos[3]>>,
                rotation |-> IF IsNone(rotation) THEN <<0, 0, 0>> ELSE rotation,
                scale |-> IF IsNone(scale) THEN <<1, 1, 1>> ELSE scale,
                material |-> IF IsNone(material)
                             THEN Material_init("", <<>>, <<>>, <<>>, <<>>)
                             ELSE material[1],
                visible |-> IF IsNone(visible) THEN TRUE ELSE visible[1],
                scenes |-> <<>>,
                id |-> NewId("Object"),
                next_memory_id |-> InstanceCounterAfterInit("Object")]
        given == [position |-> position, rotation |-> rotation, scale |-> scale,
                  material |-> material, visible |-> visible]
    IN
    IF IsNone(material) /\ MaterialCallMissesArgs(0)
    THEN /\ last' = CallArgs("Object.__init__", 0, name, NameTaken(objects, name), "TypeError", given)
         /\ UNCHANGED <<lights, cameras, objects, scenes, next_memory_id, bgcolor, calls>>
    ELSE IF NameTaken(objects, name)
    THEN /\ last' = CallArgs("Object.__init__", 0, name, TRUE, DuplicateNameError(0), given)
         /\ UNCHANGED <<lights, cameras, objects, scenes, next_memory_id, bgcolor, calls>>
    ELSE /\ objects' = Append(objects, update_transformed_vertices(obj))
         /\ next_memory_id' = ClassCounterAfterInit("Object")
         /\ last' = CallArgs("Object.__init__", Len(objects) + 1, name, FALSE, "ok", given)
         /\ UNCHANGED <<lights, cameras, scenes, bgcolor, calls>>

\* ----------------------------------------------------------- change_name
Light_change_name(l, new_name) ==
    /\ IF NameTaken(lights, new_name)
       THEN /\ last' = Call("Light.change_name", l, 0, new_name, TRUE, DuplicateNameError(0), 0)
            /\ UNCHANGED lights
       ELSE /\ lights' = [lights EXCEPT ![l].name = new_name]
            /\ last' = Call("Light.change_name", l, 0, new_name, FALSE, "ok", 0)
    /\ UNCHANGED <<cameras, objects, scenes, next_memory_id, bgcolor, calls>>

Scene_change_name(s, new_name) ==
    /\ IF NameTaken(scenes, new_name)
       THEN /\ last' = Call("Scene.change_name", s, 0, new_name, TRUE, DuplicateNameError(0), 0)
            /\ UNCHANGED scenes
       ELSE /\ scenes' = [scenes EXCEPT ![s].name = new_name]
            /\ last' = Call("Scene.change_name", s, 0, new_name, FALSE, "ok", 0)
    /\ UNCHANGED <<lights, cameras, objects, next_memory_id, bgcolor, calls>>

Camera_change_name(c, new_name) ==
    /\ IF NameTaken(cameras, new_name)
       THEN /\ last' = Call("Camera.change_name", c, 0, new_name, TRUE, DuplicateNameError(0), 0)
            /\ UNCHANGED cameras
       ELSE /\ cameras' = [cameras EXCEPT ![c].name = new_name]
            /\ last' = Call("Camera.change_name", c, 0, new_name, FALSE, "ok", 0)
    /\ UNCHANGED <<lights, objects, scenes, next_memory_id, bgcolor, calls>>

Object_change_name(o, new_name) ==
    /\ IF NameTaken(objects, new_name)
       THEN /\ last' = Call("Object.change_name", o, 0, new_name, TRUE, DuplicateNameError(0), 0)
            /\ UNCHANGED objects
       ELSE /\ objects' = [objects EXCEPT ![o].name = new_name]
            /\ last' = Call("Object.change_name", o, 0, new_name, FALSE, "ok", 0)
    /\ UNCHANGED <<lights, cameras, scenes, next_memory_id, bgcolor, calls>>

\* ------------------------------------------------------------ transforms
\* `if x: v[0] = x` for each axis: an argument that is None or 0 leaves its
\* axis alone (Object.set_position, Object.set_rotation, Camera.set_position)
set_axes(current, x, y, z) ==
    << IF Truthy(x) THEN x[1] ELSE current[1],
       IF Truthy(y) THEN y[1] ELSE current[2],
       IF Truthy(z) THEN z[1] ELSE current[3] >>

\* add_axes that overwrites the axis with the argument
add_axes_overwrite(current, x, y, z) ==
    << IF Truthy(x) THEN x[1] ELSE current[1],
       IF Truthy(y) THEN y[1] ELSE current[2],
       IF Truthy(z) THEN z[1] ELSE current[3] >>

\* `if x: v[0] += x` for each axis (Object.translate, Object.rotate,
\* Camera.translate)
add_axes(current, x, y, z) ==
    << IF Truthy(x) THEN current[1] + x[1] ELSE current[1],
       IF Truthy(y) THEN current[2] + y[1] ELSE current[2],
       IF Truthy(z) THEN current[3] + z[1] ELSE current[3] >>

\* Camera.set_rotation, one axis: `if v < clamp[0]: v = clamp[0] elif
\* v > clamp[1]: v = clamp[1]` when the camera has a clamp for the axis.
\* A clamp is <<>> (None) or << <<min, max>> >>.
clamp_absolute(v, clamp) ==
    IF IsNone(clamp) THEN v
    ELSE IF v < clamp[1][1] THEN clamp[1][1]
    ELSE IF v > clamp[1][2] THEN clamp[1][2]
    ELSE v

\* Camera.rotate, one axis: the angle is cut so that the sum stays in the clamp
clamp_delta(v, current, clamp) ==
    IF IsNone(clamp) THEN v
    ELSE IF v + current < clamp[1][1] THEN clamp[1][1] - current
    ELSE IF v + current > clamp[1][2] THEN clamp[1][2] - current
    ELSE v

\* Camera.set_rotation: the x branch, then the y branch, then the z branch,
\* which stores its value in self._rotation[0] (line 509)
camera_set_rotation(camera, x, y, z) ==
    LET r0 == camera.rotation
        r1 == IF Truthy(x)
                 THEN [r0 EXCEPT ![1] = clamp_absolute(x[1], camera.x_clamp)] ELSE r0
        r2 == IF Truthy(y)
                 THEN [r1 EXCEPT ![2] = clamp_absolute(y[1], camera.y_clamp)] ELSE r1
        r3 == IF Truthy(z)
                 THEN [r2 EXCEPT ![1] = clamp_absolute(z[1], camera.z_clamp)] ELSE r2
    IN  [camera EXCEPT !.rotation = r3]

\* Camera.rotate
camera_rotate_by(camera, x, y, z) ==
    LET r0 == camera.rotation
        r1 == IF Truthy(x)
                 THEN [r0 EXCEPT ![1] = @ + clamp_delta(x[1], r0[1], camera.x_clamp)] ELSE r0
        r2 == IF Truthy(y)
                 THEN [r1 EXCEPT ![2] = @ + clamp_delta(y[1], r1[2], camera.y_clamp)] ELSE r1
        r3 == IF Truthy(z)
                 THEN [r2 EXCEPT ![3] = @ + clamp_delta(z[1], r2[3], camera.z_clamp)] ELSE r2
    IN  [camera EXCEPT !.rotation = r3]

\* Camera.translate
camera_translate(camera, x, y, z) ==
    [camera EXCEPT !.position = add_axes(camera.position, x, y, z)]

\* Camera.set_position
camera_set_position(camera, x, y, z) ==
    [camera EXCEPT !.position = set_axes(camera.position, x, y, z)]

\* A method of Camera that changes the camera and returns normally
CameraCall(op, c, args, camera) ==
    /\ cameras' = [cameras EXCEPT ![c] = camera]
    /\ last' = CallArgs(op, c, "", FALSE, "ok", args)
    /\ UNCHANGED <<lights, objects, scenes, next_memory_id, bgcolor, calls>>

Camera_set_rotation(c, x, y, z) ==
    CameraCall("Camera.set_rotation", c, <<x, y, z>>, camera_set_rotation(cameras[c], x, y, z))

Camera_rotate(c, x, y, z) ==
    CameraCall("Camera.rotate", c, <<x, y, z>>, camera_rotate_by(cameras[c], x, y, z))

Camera_translate(c, x, y, z) ==
    CameraCall("Camera.translate", c, <<x, y, z>>, camera_translate(cameras[c], x, y, z))

Camera_set_position(c, x, y, z) ==
    CameraCall("Camera.set_position", c, <<x, y, z>>, camera_set_position(cameras[c], x, y, z))

\* The scale of an object is <<sx, sy, sz>>, or <<>> for a list that holds
\* None in some place (set_scale with an omitted multiplier): every such list
\* behaves alike, `number * None` raises TypeError.
ScaleHoldsNone(obj) == obj.scale = <<>>

\* The call of self._update_transformed_vertices() that ends every transform
\* method.  With None in the scale, line 706 has replaced the transformed
\* buffer by a copy of the original one when line 707 raises.
refresh(obj) ==
    IF ScaleHoldsNone(obj)
        THEN [err |-> "TypeError",
              obj |-> [obj EXCEPT !.transformed_vertex_array = obj.original_vertex_array]]
        ELSE [err |-> "ok", obj |-> update_transformed_vertices(obj)]

\* Object.set_rotation
object_set_rotation(obj, x, y, z) ==
    refresh([obj EXCEPT !.rotation = set_axes(obj.rotation, x, y, z)])

\* Object.rotate
object_rotate(obj, x, y, z) ==
    refresh([obj EXCEPT !.rotation = add_axes(obj.rotation, x, y, z)])

\* Object.translate
object_translate(obj, x, y, z) ==
    refresh([obj EXCEPT !.position = add_axes(obj.position, x, y, z)])

\* Object.set_position
object_set_position(obj, x, y, z) ==
    refresh([obj EXCEPT !.position = set_axes(obj.position, x, y, z)])

\* `if uniform: z_axis_multiplier = y_axis_multiplier = x_axis_multiplier`
multipliers(x, y, z, uniform) == IF uniform THEN <<x, x, x>> ELSE <<x, y, z>>

\* Object.set_scale: the multipliers are optional arguments
object_set_scale(obj, x, y, z, uniform) ==
    LET m == multipliers(x, y, z, uniform)
    IN  refresh([obj EXCEPT !.scale =
                    IF \E i \in 1..3 : IsNone(m[i]) THEN <<>>
                    ELSE <<m[1][1], m[2][1], m[3][1]>>])

\* Object.scale: the products of line 885 raise TypeError, before anything
\* is assigned, when a factor is None
object_scale(obj, x, y, z, uniform) ==
    LET m == multipliers(x, y, z, uniform)
    IN  IF ScaleHoldsNone(obj) \/ \E i \in 1..3 : IsNone(m[i])
            THEN [err |-> "TypeError", obj |-> obj]
            ELSE refresh([obj EXCEPT !.scale =
                            <<@[1] * m[1][1], @[2] * m[2][1], @[3] * m[3][1]>>])

\* Object.update_vertex_array: new_face_array is <<>> when omitted
object_update_vertex_array(obj, new_vertex_array, new_face_array) ==
    LET centered == center_vertex_array(new_vertex_array, <<0, 0, 0>>)
    IN  refresh([obj EXCEPT !.face_array = IF new_face_array # <<>> THEN new_face_array ELSE @,
                            !.original_vertex_array = centered,
                            !.transformed_vertex_array = centered,
                            !.translated_vertex_array = centered,
                            !.camera_perspective_vertex_array = <<>>])

\* A transform method of Object: r.obj is the object it leaves, r.err the
\* exception it ends with
ObjectCall(op, o, args, r) ==
    /\ objects' = [objects EXCEPT ![o] = r.obj]
    /\ last' = CallArgs(op, o, "", FALSE, r.err, args)
    /\ UNCHANGED <<lights, cameras, scenes, next_memory_id, bgcolor, calls>>

Object_set_rotation(o, x, y, z) ==
    ObjectCall("Object.set_rotation", o, <<x, y, z>>, object_set_rotation(objects[o], x, y, z))

Object_rotate(o, x, y, z) ==
    ObjectCall("Object.rotate", o, <<x, y, z>>, object_rotate(objects[o], x, y, z))

Object_translate(o, x, y, z) ==
    ObjectCall("Object.translate", o, <<x, y, z>>, object_translate(objects[o], x, y, z))

Object_set_position(o, x, y, z) ==
    ObjectCall("Object.set_position", o, <<x, y, z>>, object_set_position(objects[o], x, y, z))

Object_set_scale(o, x, y, z, uniform) ==
    ObjectCall("Object.set_scale", o, <<x, y, z, uniform>>, object_set_scale(objects[o], x, y, z, uniform))

Object_scale(o, x, y, z, uniform) ==
    ObjectCall("Object.scale", o, <<x, y, z, uniform>>, object_scale(objects[o], x, y, z, uniform))

Object_update_vertex_array(o, new_vertex_array, new_face_array) ==
    ObjectCall("Object.update_vertex_array", o, <<new_vertex_array, new_face_array>>,
               object_update_vertex_array(objects[o], new_vertex_array, new_face_array))

\* ------------------------------------------------------ scene membership
\* do_add_object without the append to object._scenes
do_add_object_no_backref(op, s, o) ==
    /\ IF NameInMemory(objects, scenes[s].object_memory, objects[o].name)
       THEN /\ last' = Call(op, s, o, "", o \in Range(scenes[s].object_memory),
                            AlreadyInSceneError(0), 0)
            /\ UNCHANGED scenes
       ELSE /\ scenes' = [scenes EXCEPT ![s].object_memory = Append(@, o)]
            /\ last' = Call(op, s, o, "", o \in Range(scenes[s].object_memory), "ok", 0)
    /\ UNCHANGED <<objects, lights, cameras, next_memory_id, bgcolor, calls>>

\* Scene.add_object, also reached through Object.add_to_scene (op names the
\* entry point)
do_add_object(op, s, o) ==
    /\ IF NameInMemory(objects, scenes[s].object_memory, objects[o].name)
       THEN /\ last' = Call(op, s, o, "", o \in Range(scenes[s].object_memory),
                            AlreadyInSceneError(0), 0)
            /\ UNCHANGED <<scenes, objects>>
       ELSE /\ scenes' = [scenes EXCEPT ![s].object_memory = Append(@, o)]
            /\ objects' = [objects EXCEPT ![o].scenes = Append(@, s)]
            /\ last' = Call(op, s, o, "", o \in Range(scenes[s].object_memory), "ok", 0)
    /\ UNCHANGED <<lights, cameras, next_memory_id, bgcolor, calls>>

Scene_add_object(s, o) == do_add_object("Scene.add_object", s, o)

Object_add_to_scene(o, s) == do_add_object("Object.add_to_scene", s, o)

\* Scene.remove_object, also reached through Object.remove_from_scene, whose
\* own except clause sees no ValueError: remove_object has turned it into
\* IDNotFoundError(object._id)
do_remove_object(op, s, o) ==
    LET first == list_remove(scenes[s].object_memory, o)
        second == list_remove(objects[o].scenes, s)
        pre == o \in Range(scenes[s].object_memory)
    IN
    /\ IF first.raised
       THEN /\ last' = Call(op, s, o, "", pre, IDNotFoundError(1), objects[o].id)
            /\ UNCHANGED <<scenes, objects>>
       ELSE /\ scenes' = [scenes EXCEPT ![s].object_memory = first.list]
            /\ objects' = [objects EXCEPT ![o].scenes = second.list]
            /\ last' = IF second.raised
                         THEN Call(op, s, o, "", pre, IDNotFoundError(1), objects[o].id)
                         ELSE Call(op, s, o, "", pre, "ok", 0)
    /\ UNCHANGED <<lights, cameras, next_memory_id, bgcolor, calls>>

Scene_remove_object(s, o) == do_remove_object("Scene.remove_object", s, o)

Object_remove_from_scene(o, s) == do_remove_object("Object.remove_from_scene", s, o)

\* Scene.add_light, also reached through Light.add_to_scene
do_add_light(op, s, l) ==
    /\ IF NameInMemory(lights, scenes[s].light_memory, lights[l].name)
       THEN /\ last' = Call(op, s, l, "", l \in Range(scenes[s].light_memory),
                            AlreadyInSceneError(0), 0)
            /\ UNCHANGED <<scenes, lights>>
       ELSE /\ scenes' = [scenes EXCEPT ![s].light_memory = Append(@, l)]
            /\ lights' = [lights EXCEPT ![l].scenes = Append(@, s)]
            /\ last' = Call(op, s, l, "", l \in Range(scenes[s].light_memory), "ok", 0)
    /\ UNCHANGED <<objects, cameras, next_memory_id, bgcolor, calls>>

Scene_add_light(s, l) == do_add_light("Scene.add_light", s, l)

Light_add_to_scene(l, s) == do_add_light("Light.add_to_scene", s, l)

\* Scene.remove_light, also reached through Light.remove_from_scene
do_remove_light(op, s, l) ==
    LET first == list_remove(scenes[s].light_memory, l)
        second == list_remove(lights[l].scenes, s)
        pre == l \in Range(scenes[s].light_memory)
    IN
    /\ IF first.raised
       THEN /\ last' = Call(op, s, l, "", pre, IDNotFoundError(1), lights[l].id)
            /\ UNCHANGED <<scenes, lights>>
       ELSE /\ scenes' = [scenes EXCEPT ![s].light_memory = first.list]
            /\ lights' = [lights EXCEPT ![l].scenes = second.list]
            /\ last' = IF second.raised
                         THEN Call(op, s, l, "", pre, IDNotFoundError(1), lights[l].id)
                         ELSE Call(op, s, l, "", pre, "ok", 0)
    /\ UNCHANGED <<objects, cameras, next_memory_id, bgcolor, calls>>

Scene_remove_light(s, l) == do_remove_light("Scene.remove_light", s, l)

Light_remove_from_scene(l, s) == do_remove_light("Light.remove_from_scene", s, l)

\* ---------------------------------------------------------- active camera
\* set_active_camera that refuses the camera that is already active
set_active_camera_checked(scene, c) ==
    IF scene.active_camera = c
        THEN [err |-> NoScenePermission(2), scene |-> scene]
        ELSE [err |-> "ok", scene |-> [scene EXCEPT !.active_camera = c]]

\* What Scene.set_active_camera does with the scene: the camera is assigned,
\* whatever the slot held.  err is the exception raised, "ok" for none.
set_active_camera(scene, c) ==
    [err |-> "ok", scene |-> [scene EXCEPT !.active_camera = c]]

\* Scene.set_active_camera, also reached through Camera.add_to_scene
do_set_active_camera(op, s, c) ==
    LET r == set_active_camera(scenes[s], c)
    IN  /\ scenes' = [scenes EXCEPT ![s] = r.scene]
        /\ last' = Call(op, s, c, "", scenes[s].active_camera = c, r.err, 0)
        /\ UNCHANGED <<lights, cameras, objects, next_memory_id, bgcolor, calls>>

Scene_set_active_camera(s, c) == do_set_active_camera("Scene.set_active_camera", s, c)

Camera_add_to_scene(c, s) == do_set_active_camera("Camera.add_to_scene", s, c)

\* Scene.remove_active_camera
Scene_remove_active_camera(s) ==
    /\ scenes' = [scenes EXCEPT ![s].active_camera = None]
    /\ last' = Call("Scene.remove_active_camera", s, 0, "", scenes[s].active_camera # None, "ok", 0)
    /\ UNCHANGED <<lights, cameras, objects, next_memory_id, bgcolor, calls>>

\* IsActiveCamera that only tests that the slot is taken
IsActiveCamera_any(scene, c) == scene.active_camera # None

\* scene._active_camera == self: identity, Camera defines no __eq__
IsActiveCamera(scene, c) == scene.active_camera = c

\* Camera.remove_from_scene
Camera_remove_from_scene(c, s) ==
    /\ IF IsActiveCamera(scenes[s], c)
       THEN /\ scenes' = [scenes EXCEPT ![s].active_camera = None]
            /\ last' = Call("Camera.remove_from_scene", s, c, "", scenes[s].active_camera = c, "ok", 0)
       ELSE /\ last' = Call("Camera.remove_from_scene", s, c, "", scenes[s].active_camera = c,
                            NoScenePermission(3), 0)
            /\ UNCHANGED scenes
    /\ UNCHANGED <<lights, cameras, objects, next_memory_id, bgcolor, calls>>

\* ---------------------------------------------------------------- render
\* A call that reached the drawing surface.  call: "clear" (pointer.clear),
\* "bgcolor" (screen.bgcolor(ambient_light)), "polyline" (one face of
\* draw_wireframe), "polygon" (draw_filled_polygon), "update" (screen.update).
\* obj and face say which object and which face (index in _face_array) a draw
\* call belongs to, n how many projected vertices it joins, color the fill
\* colour of a polygon (<<>> for the other calls).  Screen coordinates are not
\* part of the record.
SurfaceCall(call, obj, face, n) ==
    [call |-> call, obj |-> obj, face |-> face, n |-> n, color |-> <<>>]

DrawCalls == {"polyline", "polygon"}

Perms(n) == {p \in [1..n -> 1..n] : \A i, j \in 1..n : p[i] = p[j] => i = j}

\* list.sort(key = ..., reverse = True) and sorted(..., key = -mean): the
\* order of the indices after a stable sort by descending key; the key of
\* element k is the fraction num[k] / den[k], den[k] > 0
sort_descending(num, den) ==
    CHOOSE p \in Perms(Len(num)) :
        \A i, j \in 1..Len(num) : i < j =>
            \/ num[p[i]] * den[p[j]] > num[p[j]] * den[p[i]]
            \/ /\ num[p[i]] * den[p[j]] = num[p[j]] * den[p[i]]
               /\ p[i] < p[j]

\* object_order without the sort: the order of the scene's object list
object_order_unsorted(distances) == [k \in DOMAIN distances |-> k]

\* distances.sort(key = lambda x: x[1], reverse = True): the positions of
\* the scene's object list in the order they are rendered
object_order(distances) ==
    sort_descending(distances, [k \in DOMAIN distances |-> 1])

\* survives without the test of the far plane
survives_near_only(vert, camera) ==
    ~(vert[3] - camera.position[3] <= camera.near_plane)

\* perspective_transform returns a point (not None)
survives(vert, camera) ==
    LET z_offset == vert[3] - camera.position[3]
    IN  ~(z_offset <= camera.near_plane) /\ ~(z_offset > camera.far_plane)

\* len(projected_face): the vertices of a face that survive
projected_count(face, vertex_array, camera) ==
    Cardinality({k \in DOMAIN face : survives(vertex_array[face[k]], camera)})

RECURSIVE SumDepth(_, _, _, _)
SumDepth(face, vertex_array, camera_position, n) ==
    IF n = 0 THEN 0
    ELSE vertex_array[face[n]][3] + camera_position[3]
         + SumDepth(face, vertex_array, camera_position, n - 1)

\* face_order without the sort: the order of _face_array
face_order_unsorted(face_array, vertex_array, camera) == [k \in DOMAIN face_array |-> k]

\* sorted(enumerate(self._face_array), key = -numpy.mean([z + camera z ...])):
\* ascending by the negated mean, that is descending by the mean
face_order(face_array, vertex_array, camera) ==
    sort_descending(
        [k \in DOMAIN face_array |->
            SumDepth(face_array[k], vertex_array, camera.position, Len(face_array[k]))],
        [k \in DOMAIN face_array |-> Len(face_array[k])])

\* calculate_normal before normalize_vector: the cross product of the first
\* two edges of a face.  The model keeps the direction, not the unit vector.
calculate_normal(v) ==
    LET u == [i \in 1..3 |-> v[2][i] - v[1][i]]
        w == [i \in 1..3 |-> v[3][i] - v[1][i]]
    IN  << u[2] * w[3] - u[3] * w[2], u[3] * w[1] - u[1] * w[3], u[1] * w[2] - u[2] * w[1] >>

\* precompute_normals: from self._translated_vertex_array
precompute_normals(obj) ==
    [k \in DOMAIN obj.face_array |->
        calculate_normal([i \in 1..3 |-> obj.translated_vertex_array[obj.face_array[k][i]]])]

\* The colour arithmetic is done in floats by the code; the model computes it
\* exactly, with fractions <<numerator, denominator>> in lowest terms and a
\* positive denominator.  A square root is taken of perfect squares only
\* (Sqrt has no value otherwise): the vectors of the model are chosen so.
RECURSIVE Gcd(_, _)
Gcd(a, b) == IF b = 0 THEN a ELSE Gcd(b, a % b)

Abs(a) == IF a < 0 THEN 0 - a ELSE a

Frac(n, d) ==
    LET g == Gcd(Abs(n), Abs(d))
    IN  IF d < 0 THEN <<(0 - n) \div g, (0 - d) \div g>> ELSE <<n \div g, d \div g>>

Whole(n) == <<n, 1>>

FracAdd(p, q) == Frac(p[1] * q[2] + q[1] * p[2], p[2] * q[2])

FracSub(p, q) == Frac(p[1] * q[2] - q[1] * p[2], p[2] * q[2])

FracMul(p, q) == Frac(p[1] * q[1], p[2] * q[2])

FracDiv(p, q) == Frac(p[1] * q[2], p[2] * q[1])

FracLess(p, q) == p[1] * q[2] < q[1] * p[2]

FracMax(p, q) == IF FracLess(p, q) THEN q ELSE p

FracMin(p, q) == IF FracLess(q, p) THEN q ELSE p

RECURSIVE FracPow(_, _)
FracPow(p, n) == IF n = 0 THEN Whole(1) ELSE FracMul(p, FracPow(p, n - 1))

Sqrt(n) == CHOOSE r \in 0..n : r * r = n

FracSqrt(p) == <<Sqrt(p[1]), Sqrt(p[2])>>

\* sum(a * b for a, b in zip(u, v))
Dot(u, v) == FracAdd(FracAdd(FracMul(u[1], v[1]), FracMul(u[2], v[2])), FracMul(u[3], v[3]))

\* int(c): the fraction truncated towards zero
int(c) == IF c[1] < 0 THEN 0 - ((0 - c[1]) \div c[2]) ELSE c[1] \div c[2]

\* normalize_vector: [0, 0, 0] for a norm below 1e-6 (in the model: norm 0),
\* else the vector divided by its norm
normalize_vector(vector) ==
    LET norm == FracSqrt(Dot(vector, vector))
    IN  IF norm[1] = 0 THEN <<Whole(0), Whole(0), Whole(0)>>
        ELSE [i \in 1..3 |-> FracDiv(vector[i], norm)]

\* One turn of `for light in lights` in compute_lighting: the colour after
\* the light's diffuse and specular terms are added.  Only min(255, ...) is
\* applied; there is no lower bound.
add_light(color, light, first_vertex, normalized_normal, camera_position, material) ==
    LET light_dir == [i \in 1..3 |-> Whole(light.position[i] - first_vertex[i])]
        light_distance == FracSqrt(Dot(light_dir, light_dir))
        normalized_light_dir == normalize_vector(light_dir)
        dot_product == FracMax(Dot(normalized_normal, normalized_light_dir), Whole(0))
        diffuse_intensity == FracMul(dot_product, Frac(light.intensity, IntensityOne))
        diffuse == [i \in 1..3 |->
                       FracDiv(FracMul(FracMul(Whole(material.diffuse_color[i]), diffuse_intensity),
                                       Whole(light.color[i])),
                               Whole(255))]
        reflect_dir == [i \in 1..3 |->
                           FracSub(FracMul(FracMul(Whole(2), normalized_normal[i]), dot_product),
                                   normalized_light_dir[i])]
        normalized_reflect_dir == normalize_vector(reflect_dir)
        view_dir == normalize_vector([i \in 1..3 |-> Whole(camera_position[i] - first_vertex[i])])
        spec_angle == FracMax(Dot(normalized_reflect_dir, view_dir), Whole(0))
        spec_intensity == FracDiv(FracPow(spec_angle, material.specular_coefficient),
                                  FracAdd(light_distance, Whole(1)))
        specular == [i \in 1..3 |->
                        FracDiv(FracMul(FracMul(Whole(material.specular_color[i]), spec_intensity),
                                        Whole(light.color[i])),
                                Whole(255))]
    IN  [i \in 1..3 |-> FracMin(Whole(255), FracAdd(FracAdd(color[i], diffuse[i]), specular[i]))]

\* The loop over the first n lights
RECURSIVE add_lights(_, _, _, _, _, _, _)
add_lights(color, lit, n, first_vertex, normalized_normal, camera_position, material) ==
    IF n = 0 THEN color
    ELSE add_light(add_lights(color, lit, n - 1, first_vertex, normalized_normal,
                              camera_position, material),
                   lit[n], first_vertex, normalized_normal, camera_position, material)

\* compute_lighting(face_vertices, normal, lights, camera_position, material):
\* the ambient term, then one turn per light.  face_vertices[0] is the only
\* vertex used.
compute_lighting(first_vertex, normal, lit, camera_position, material, ambient_light) ==
    add_lights([i \in 1..3 |-> Frac(material.ambient_color[i] * ambient_light[i], 255)],
               lit, Len(lit), first_vertex,
               normalize_vector([i \in 1..3 |-> Whole(normal[i])]),
               camera_position, material)

\* draw_filled_polygon(vertices, color): the colour is truncated to integers
\* and handed to pointer.fillcolor; the polygon joins n projected vertices
draw_filled_polygon(o, face, n, color) ==
    [call |-> "polygon", obj |-> o, face |-> face, n |-> n,
     color |-> [i \in 1..3 |-> int(color[i])]]

\* draw_wireframe: one closed polyline per face with at least 3 surviving
\* vertices, in the order of _face_array
draw_wireframe(o, obj, vertex_array, camera) ==
    LET kept == SelectSeq([k \in DOMAIN obj.face_array |-> k],
                    LAMBDA k : ~(projected_count(obj.face_array[k], vertex_array, camera) < 3))
    IN  [j \in DOMAIN kept |->
            SurfaceCall("polyline", o, kept[j],
                        projected_count(obj.face_array[kept[j]], vertex_array, camera))]

\* draw_faces: one filled polygon per face with at least 3 surviving vertices,
\* in the order of sorted_faces
draw_faces(o, obj, vertex_array, camera, ambient_light, lit) ==
    LET order == face_order(obj.face_array, vertex_array, camera)
        kept == SelectSeq(order,
                    LAMBDA k : ~(projected_count(obj.face_array[k], vertex_array, camera) < 3))
        normals == precompute_normals(obj)
    IN  [j \in DOMAIN kept |->
            draw_filled_polygon(o, kept[j],
                projected_count(obj.face_array[kept[j]], vertex_array, camera),
                compute_lighting(vertex_array[obj.face_array[kept[j]][1]], normals[kept[j]],
                                 lit, camera.position, obj.material, ambient_light))]

\* Object._render(pointer, camera, ambient_light, lights, mode) of object o:
\* the exception it ends with, the object afterwards and the draw calls it
\* issued
Object_render(o, obj, camera, ambient_light, lit, mode) ==
    IF ~obj.visible THEN [err |-> "ok", obj |-> obj, calls |-> <<>>]
    ELSE LET cpva == camera_perspective(obj, camera)
             seen == [obj EXCEPT !.camera_perspective_vertex_array = cpva]
         IN  CASE mode = "wire" ->
                    [err |-> "ok", obj |-> seen,
                     calls |-> draw_wireframe(o, seen, cpva, camera)]
               [] mode = "face" ->
                    [err |-> "ok",
                     obj |-> [seen EXCEPT !.face_normals = precompute_normals(seen)],
                     calls |-> draw_faces(o, seen, cpva, camera, ambient_light, lit)]
               [] OTHER ->
                    [err |-> Turtle3DError(1), obj |-> seen, calls |-> <<>>]

\* One turn of the loop `for obj, distance in distances`: object o is
\* rendered unless an earlier _render raised
render_next(prev, o, camera, ambient_light, lit, mode) ==
    IF prev.err # "ok" THEN prev
    ELSE LET r == Object_render(o, prev.objects[o], camera, ambient_light, lit, mode)
         IN  [err |-> r.err,
              objects |-> [prev.objects EXCEPT ![o] = r.obj],
              calls |-> prev.calls \o r.calls]

\* The loop over the first n objects of the sorted list
RECURSIVE render_objects(_, _, _, _, _, _, _)
render_objects(sorted, n, objs, camera, ambient_light, lit, mode) ==
    IF n = 0 THEN [err |-> "ok", objects |-> objs, calls |-> <<>>]
    ELSE render_next(render_objects(sorted, n - 1, objs, camera, ambient_light, lit, mode),
                     sorted[n], camera, ambient_light, lit, mode)

\* render_no_camera with the test after pointer.clear()
render_no_camera_cleared(scene) ==
    [err |-> NoActiveCamera(1), objects |-> objects, bgcolor |-> bgcolor,
     calls |-> <<SurfaceCall("clear", 0, 0, 0)>>]

\* Line 376: render_scene on a scene without active camera raises before
\* anything else is done
render_no_camera(scene) ==
    [err |-> NoActiveCamera(1), objects |-> objects, bgcolor |-> bgcolor, calls |-> <<>>]

\* surface_calls with the background set on every render
surface_calls_always_bgcolor(scene, draws, finished) ==
    <<SurfaceCall("clear", 0, 0, 0), SurfaceCall("bgcolor", 0, 0, 0)>>
    \o draws
    \o (IF finished THEN <<SurfaceCall("update", 0, 0, 0)>> ELSE <<>>)

\* Lines 379-380 and 383: what render_scene sends to the surface around the
\* objects' draw calls; `finished` says that no _render raised
surface_calls(scene, draws, finished) ==
    <<SurfaceCall("clear", 0, 0, 0)>>
    \o (IF bgcolor # scene.ambient_light THEN <<SurfaceCall("bgcolor", 0, 0, 0)>> ELSE <<>>)
    \o draws
    \o (IF finished THEN <<SurfaceCall("update", 0, 0, 0)>> ELSE <<>>)

\* Scene.render_scene(mode): the exception it ends with and what it leaves
render_scene(scene, mode) ==
    IF scene.active_camera = None THEN render_no_camera(scene)
    ELSE LET camera == cameras[scene.active_camera]
             mem == scene.object_memory
             \* get_distance_to_camera stores the camera-space copy in the object
             measured == [o \in DOMAIN objects |->
                            IF o \in Range(mem)
                            THEN [objects[o] EXCEPT !.camera_perspective_vertex_array =
                                      camera_perspective(objects[o], camera)]
                            ELSE objects[o]]
             distances == [k \in DOMAIN mem |-> distance_to_camera(objects[mem[k]], camera)]
             order == object_order(distances)
             sorted == [k \in DOMAIN mem |-> mem[order[k]]]
             \* self._light_memory, handed to every _render
             lit == [k \in DOMAIN scene.light_memory |-> lights[scene.light_memory[k]]]
             r == render_objects(sorted, Len(sorted), measured, camera,
                                 scene.ambient_light, lit, mode)
         IN  [err |-> r.err,
              objects |-> r.objects,
              bgcolor |-> scene.ambient_light,
              calls |-> surface_calls(scene, r.calls, r.err = "ok")]

Scene_render_scene(s, mode) ==
    \E r \in {render_scene(scenes[s], mode)} :
        /\ objects' = r.objects
        /\ bgcolor' = r.bgcolor
        /\ calls' = r.calls
        /\ last' = Call("Scene.render_scene", s, 0, mode, scenes[s].active_camera # None, r.err, 0)
        /\ UNCHANGED <<lights, cameras, scenes, next_memory_id>>

\* ------------------------------------------------------------ the inputs
\* A triangle and a tetrahedron; face indices start at 1 (the .obj convention).
\* Centred, the wedge has its first three vertices at z = -1 and the fourth at
\* z = 3: its faces have three different mean depths, and the third face has
\* four vertices.
Triangle == << <<0, 0, 0>>, <<3, 0, 0>>, <<0, 3, 0>> >>
TriangleFaces == << <<1, 2, 3>> >>
Wedge == << <<0, 0, 0>>, <<4, 0, 0>>, <<0, 4, 0>>, <<0, 0, 4>> >>
WedgeFaces == << <<1, 2, 4>>, <<1, 2, 3>>, <<1, 2, 3, 4>> >>

Gold == Material_init("Shiny Gold Metal", <<255, 255, 255>>, <<255, 255, 255>>,
                      <<255, 255, 255>>, <<100>>)

Modes == {"wire", "face", "points"}

\* positions given to Object(...): in front of the camera, across the far
\* plane (the fourth vertex of the wedge beyond it), and beyond the far plane
RPositions == {<<0, 0, 3>>, <<0, 0, 8>>, <<0, 0, 20>>}
RRotations == {<<>>, <<0, 90, 0>>}
\* positions given to Camera(...): the default, and one step towards the
\* objects, which puts a vertex of the wedge on the near plane (object at depth
\* 3) or on the far plane (object at depth 8)
RCameraPositions == {<<>>, <<0, 0, 1>>}
RNames == <<"a", "b", "c", "d">>
RNear == <<1>>
RFar == <<10>>

\* The arguments (x, y, z) of a transform method: a value for one axis, or
\* the same value for all three
OneAxis(axis, v) == [i \in 1..3 |-> IF i = axis THEN <<v>> ELSE <<>>]
AllAxes(v) == << <<v>>, <<v>>, <<v>> >>
AxisArgs(values) ==
    {OneAxis(axis, v) : axis \in 1..3, v \in values} \cup {AllAxes(v) : v \in values}

PXClamp == <<0, 90>>              \* x_clamp given to Camera(...)
PYClamp == <<-90, 90>>            \* y_clamp, when given
PZClamp == <<-90, 90>>            \* z_clamp
PSetAngles == {0, 90, -180}       \* arguments of Camera.set_rotation
PTurnAngles == {90, -90}          \* arguments of Camera.rotate
PObjectSetAngles == {0, 90}       \* arguments of Object.set_rotation
PObjectTurnAngles == {90}         \* arguments of Object.rotate
PSetCoords == {0, 1}              \* arguments of set_position
PMoveCoords == {1}                \* arguments of translate
\* arguments (x, y, z, uniform) of set_scale and scale
PScaleArgs ==
    { << <<2>>, <<1>>, <<1>>, FALSE >>, << <<1>>, <<1>>, <<1>>, FALSE >>,
      << <<2>>, <<>>, <<>>, TRUE >>, << <<2>>, <<>>, <<>>, FALSE >> }
\* arguments (new_vertex_array, new_face_array) of update_vertex_array
PMeshes == { <<Wedge, <<>>>>, <<Wedge, WedgeFaces>>, <<Triangle, TriangleFaces>> }

\* Lighting.  The triangle at LPosition has the first vertex of its face at
\* (0, 0, 5), in front of the default camera, and its normal along z: towards
\* the camera or away from it, by the order of the face's vertices.  The
\* lights stand on the z axis, between camera and face or behind the face.
LPosition == <<1, 1, 5>>
LFaces == { << <<1, 2, 3>> >>, << <<1, 3, 2>> >> }
InFront == <<0, 0, 1>>
Behind == <<0, 0, 9>>
Orange == <<255, 128, 0>>
\* arguments (position, color, intensity) of Light(...); the intensity, in
\* tenths, is omitted, 0.0, 0.5, 2.0 or -1.0
LLights ==
    { <<InFront, <<>>, <<>>>>, <<InFront, <<Orange>>, <<0>>>>, <<InFront, <<>>, <<-10>>>>,
      <<Behind, <<>>, <<20>>>>, <<Behind, <<Orange>>, <<5>>>>, <<Behind, <<>>, <<-10>>>> }
LAmbients == {<<>>, <<0, 0, 0>>}
Matte == Material_init("Matte", <<>>, <<200, 100, 0>>, <<0, 0, 0>>, <<>>)
Glossy == Material_init("Glossy", <<>>, <<>>, <<>>, <<2>>)
LMaterials == {Matte, Glossy}

\* ------------------------------------------------------------------ Init
Init ==
    /\ lights = <<>>
    /\ cameras = <<>>
    /\ objects = <<>>
    /\ scenes = <<>>
    /\ next_memory_id = [k \in Kinds |-> 1]
    /\ bgcolor = <<>>     \* turtle's default, "white": equal to no RGB tuple
    /\ calls = <<>>
    /\ last = Call("init", 0, 0, "", FALSE, "ok", 0)

\* ------------------------------------------- Spec: registries, membership
NewLight ==
    \E n \in Names :
        /\ Len(lights) < MaxLights \/ NameTaken(lights, n)
        /\ Light_init(n, <<0, 0, -10>>, <<>>, <<>>)

NewCamera ==
    \E n \in Names :
        /\ Len(cameras) < MaxCameras \/ NameTaken(cameras, n)
        /\ Camera_init(n, <<>>, <<>>, 1, 10, <<>>, <<>>, <<>>, <<>>)

NewObject ==
    \E n \in Names :
        /\ Len(objects) < MaxObjects \/ NameTaken(objects, n)
        /\ Object_init(n, Triangle, TriangleFaces, <<>>, <<>>, <<>>, <<Gold>>, <<>>)

NewScene ==
    \E n \in Names :
        /\ Len(scenes) < MaxScenes \/ NameTaken(scenes, n)
        /\ Scene_init(n, <<>>)

ChangeName ==
    \E n \in Names :
        \/ \E l \in DOMAIN lights : Light_change_name(l, n)
        \/ \E c \in DOMAIN cameras : Camera_change_name(c, n)
        \/ \E o \in DOMAIN objects : Object_change_name(o, n)
        \/ \E s \in DOMAIN scenes : Scene_change_name(s, n)

Next ==
    \/ NewLight
    \/ NewCamera
    \/ NewObject
    \/ NewScene
    \/ ChangeName

Spec == Init /\ [][Next]_vars

\* ---------------------------------------- MembershipSpec: scene membership
\* The entities get the names of RNames in the order they are constructed.
MNewLight ==
    /\ Len(lights) < MMaxLights
    /\ Light_init(RNames[Len(lights) + 1], <<0, 0, -10>>, <<>>, <<>>)

MNewCamera ==
    /\ Len(cameras) < MMaxCameras
    /\ Camera_init(RNames[Len(cameras) + 1], <<>>, <<>>, RNear[1], RFar[1], <<>>, <<>>, <<>>, <<>>)

MNewObject ==
    /\ Len(objects) < MMaxObjects
    /\ Object_init(RNames[Len(objects) + 1], Triangle, TriangleFaces, <<>>, <<>>, <<>>,
                   <<Gold>>, <<>>)

MNewScene ==
    /\ Len(scenes) < MMaxScenes
    /\ Scene_init(RNames[Len(scenes) + 1], <<>>)

MRename ==
    /\ Len(objects) > 0
    /\ Object_change_name(1, RNames[4])

ObjectMembership ==
    \E s \in DOMAIN scenes, o \in DOMAIN objects :
        \/ Scene_add_object(s, o)
        \/ Object_add_to_scene(o, s)
        \/ Scene_remove_object(s, o)
        \/ Object_remove_from_scene(o, s)

LightMembership ==
    \E s \in DOMAIN scenes, l \in DOMAIN lights :
        \/ Scene_add_light(s, l)
        \/ Light_add_to_scene(l, s)
        \/ Scene_remove_light(s, l)
        \/ Light_remove_from_scene(l, s)

CameraMembership ==
    \E s \in DOMAIN scenes :
        \/ Scene_remove_active_camera(s)
        \/ \E c \in DOMAIN cameras :
            \/ Scene_set_active_camera(s, c)
            \/ Camera_add_to_scene(c, s)
            \/ Camera_remove_from_scene(c, s)

MembershipNext ==
    \/ MNewLight
    \/ MNewCamera
    \/ MNewObject
    \/ MNewScene
    \/ MRename
    \/ ObjectMembership
    \/ LightMembership
    \/ CameraMembership

MembershipSpec == Init /\ [][MembershipNext]_vars

\* ------------------------------------------------- RenderSpec: rendering
RNewObject ==
    \E p \in RPositions, v \in {<<>>, <<FALSE>>} :
        /\ Len(objects) < RMaxObjects
        /\ Object_init(RNames[Len(objects) + 1], Wedge, WedgeFaces, p, <<>>, <<>>, <<Gold>>, v)

RNewCamera ==
    \E p \in RCameraPositions, r \in RRotations :
        /\ Len(cameras) < RMaxCameras
        /\ Camera_init("a", p, r, RNear[1], RFar[1], <<>>, <<>>, <<>>, <<>>)

RNewScene ==
    /\ Len(scenes) < RMaxScenes
    /\ Scene_init("a", <<>>)

RAddObject ==
    \E s \in DOMAIN scenes, o \in DOMAIN objects : Scene_add_object(s, o)

RSetCamera ==
    \E s \in DOMAIN scenes, c \in DOMAIN cameras : Scene_set_active_camera(s, c)

RRemoveCamera ==
    \E s \in DOMAIN scenes : Scene_remove_active_camera(s)

RRender ==
    \E s \in DOMAIN scenes, mode \in Modes : Scene_render_scene(s, mode)

RenderNext ==
    \/ RNewObject
    \/ RNewCamera
    \/ RNewScene
    \/ RAddObject
    \/ RSetCamera
    \/ RRemoveCamera
    \/ RRender

RenderSpec == Init /\ [][RenderNext]_vars

\* ----------------------------- ScratchSpec: the scratch buffer of objects
\* One object, measured from or rendered through either of two cameras
SNewObject ==
    \E p \in RPositions, r \in RRotations :
        /\ Len(objects) < SMaxObjects
        /\ Object_init("a", Wedge, WedgeFaces, p, r, <<>>, <<Gold>>, <<>>)

SNewCamera ==
    \E r \in RRotations :
        /\ Len(cameras) < SMaxCameras
        /\ Camera_init(RNames[Len(cameras) + 1], <<0, 0, 1>>, r, RNear[1], RFar[1],
                       <<>>, <<>>, <<>>, <<>>)

SGetDistance ==
    \E o \in DOMAIN objects, c \in DOMAIN cameras : Object_get_distance_to_camera(o, c)

ScratchNext ==
    \/ SNewObject
    \/ SNewCamera
    \/ RNewScene
    \/ RAddObject
    \/ RSetCamera
    \/ RRender
    \/ SGetDistance

ScratchSpec == Init /\ [][ScratchNext]_vars

\* ------------------------------------- PoseSpec: the transform methods
\* A behaviour holds one subject, a camera or an object: no transform method
\* of one reads the other.  After a set_scale that left None in the scale of
\* an object, every transform method of the object raises TypeError until a
\* set_scale with all multipliers; the behaviours go on with scale and
\* set_scale.
WithinTurns(rotation, turns) ==
    \A i \in 1..3 : rotation[i] >= 0 - 90 * turns /\ rotation[i] <= 90 * turns

WithinCoords(position) ==
    \A i \in 1..3 : position[i] >= 0 - PMaxCoord /\ position[i] <= PMaxCoord

WithinScale(scale) == \A i \in DOMAIN scale : scale[i] >= 1 /\ scale[i] <= PMaxScale

WithinPose(obj) ==
    WithinTurns(obj.rotation, PMaxObjectTurns) /\ WithinCoords(obj.position) /\ WithinScale(obj.scale)

PNewCamera ==
    \E y_clamp \in {<<>>, <<PYClamp>>} :
        /\ Len(cameras) < PMaxCameras
        /\ Len(cameras) + Len(objects) < PMaxSubjects
        /\ Camera_init(RNames[Len(cameras) + 1], <<>>, <<>>, RNear[1], RFar[1], <<>>,
                       <<PXClamp>>, y_clamp, <<PZClamp>>)

PNewObject ==
    \E material \in {<<>>, <<Gold>>}, position \in {<<>>, <<0, 0, 1>>} :
        /\ Len(objects) < PMaxObjects
        /\ Len(cameras) + Len(objects) < PMaxSubjects
        /\ Object_init(RNames[Len(objects) + 1], Wedge, WedgeFaces, position, <<>>, <<>>,
                       material, <<>>)

PCameraSetRotation ==
    \E c \in DOMAIN cameras, v \in AxisArgs(PSetAngles) :
        /\ WithinTurns(camera_set_rotation(cameras[c], v[1], v[2], v[3]).rotation, PMaxTurns)
        /\ Camera_set_rotation(c, v[1], v[2], v[3])

PCameraRotate ==
    \E c \in DOMAIN cameras, v \in AxisArgs(PTurnAngles) :
        /\ WithinTurns(camera_rotate_by(cameras[c], v[1], v[2], v[3]).rotation, PMaxTurns)
        /\ Camera_rotate(c, v[1], v[2], v[3])

PCameraSetPosition ==
    \E c \in DOMAIN cameras, v \in AxisArgs(PSetCoords) :
        Camera_set_position(c, v[1], v[2], v[3])

PCameraTranslate ==
    \E c \in DOMAIN cameras, v \in AxisArgs(PMoveCoords) :
        /\ WithinCoords(camera_translate(cameras[c], v[1], v[2], v[3]).position)
        /\ Camera_translate(c, v[1], v[2], v[3])

PObjectSetRotation ==
    \E o \in DOMAIN objects, v \in AxisArgs(PObjectSetAngles) :
        /\ ~ScaleHoldsNone(objects[o])
        /\ WithinPose(object_set_rotation(objects[o], v[1], v[2], v[3]).obj)
        /\ Object_set_rotation(o, v[1], v[2], v[3])

PObjectRotate ==
    \E o \in DOMAIN objects, v \in AxisArgs(PObjectTurnAngles) :
        /\ ~ScaleHoldsNone(objects[o])
        /\ WithinPose(object_rotate(objects[o], v[1], v[2], v[3]).obj)
        /\ Object_rotate(o, v[1], v[2], v[3])

PObjectSetPosition ==
    \E o \in DOMAIN objects, v \in AxisArgs(PSetCoords) :
        /\ ~ScaleHoldsNone(objects[o])
        /\ Object_set_position(o, v[1], v[2], v[3])

PObjectTranslate ==
    \E o \in DOMAIN objects, v \in AxisArgs(PMoveCoords) :
        /\ ~ScaleHoldsNone(objects[o])
        /\ WithinPose(object_translate(objects[o], v[1], v[2], v[3]).obj)
        /\ Object_translate(o, v[1], v[2], v[3])

PObjectSetScale ==
    \E o \in DOMAIN objects, v \in PScaleArgs :
        Object_set_scale(o, v[1], v[2], v[3], v[4])

PObjectScale ==
    \E o \in DOMAIN objects, v \in PScaleArgs :
        /\ WithinPose(object_scale(objects[o], v[1], v[2], v[3], v[4]).obj)
        /\ Object_scale(o, v[1], v[2], v[3], v[4])

PObjectUpdateVertexArray ==
    \E o \in DOMAIN objects, v \in PMeshes :
        /\ ~ScaleHoldsNone(objects[o])
        /\ Object_update_vertex_array(o, v[1], v[2])

PoseNext ==
    \/ PNewCamera
    \/ PNewObject
    \/ PCameraSetRotation
    \/ PCameraRotate
    \/ PCameraSetPosition
    \/ PCameraTranslate
    \/ PObjectSetRotation
    \/ PObjectRotate
    \/ PObjectSetPosition
    \/ PObjectTranslate
    \/ PObjectSetScale
    \/ PObjectScale
    \/ PObjectUpdateVertexArray

PoseSpec == Init /\ [][PoseNext]_vars

\* ------------------------------------------------ LightingSpec: lighting
LNewLight ==
    \E l \in LLights :
        /\ Len(lights) < LMaxLights
        /\ Light_init(RNames[Len(lights) + 1], l[1], IF l[2] = <<>> THEN <<>> ELSE l[2][1], l[3])

LNewObject ==
    \E f \in LFaces, m \in LMaterials :
        /\ Len(objects) < LMaxObjects
        /\ Object_init("a", Triangle, f, LPosition, <<>>, <<>>, <<m>>, <<>>)

LNewCamera ==
    /\ Len(cameras) < LMaxCameras
    /\ Camera_init("a", <<>>, <<>>, RNear[1], RFar[1], <<>>, <<>>, <<>>, <<>>)

LNewScene ==
    \E a \in LAmbients :
        /\ Len(scenes) < LMaxScenes
        /\ Scene_init("a", a)

LAddLight ==
    \E s \in DOMAIN scenes, l \in DOMAIN lights : Scene_add_light(s, l)

LRender ==
    \E s \in DOMAIN scenes : Scene_render_scene(s, "face")

LightingNext ==
    \/ LNewLight
    \/ LNewObject
    \/ LNewCamera
    \/ LNewScene
    \/ LAddLight
    \/ RAddObject
    \/ RSetCamera
    \/ LRender

LightingSpec == Init /\ [][LightingNext]_vars

\* ================================================================ claims
NameOps == {"Light.__init__", "Camera.__init__", "Object.__init__", "Scene.__init__",
            "Light.change_name", "Camera.change_name", "Object.change_name",
            "Scene.change_name"}
AddObjectOps == {"Scene.add_object", "Object.add_to_scene"}
AddLightOps == {"Scene.add_light", "Light.add_to_scene"}
RemoveObjectOps == {"Scene.remove_object", "Object.remove_from_scene"}
RemoveLightOps == {"Scene.remove_light", "Light.remove_from_scene"}
SetCameraOps == {"Scene.set_active_camera", "Camera.add_to_scene"}

IncreasingIds(memory) == \A i, j \in DOMAIN memory : i < j => memory[i].id < memory[j].id

UniqueNames(memory) == \A i, j \in DOMAIN memory : memory[i].name = memory[j].name => i = j

NoRepeats(list) == \A i, j \in DOMAIN list : list[i] = list[j] => i = j

\* C1: in every registry an entity constructed later has a strictly larger id
\* than every entity constructed earlier (so no two entities of one type share
\* an id).
C1_IdsIncrease ==
    /\ IncreasingIds(lights)
    /\ IncreasingIds(cameras)
    /\ IncreasingIds(objects)
    /\ IncreasingIds(scenes)

\* C2: after any sequence of constructions and change_name calls, successful
\* or failed, no two entities of one registry have the same name.
C2_UniqueNames ==
    /\ UniqueNames(lights)
    /\ UniqueNames(cameras)
    /\ UniqueNames(objects)
    /\ UniqueNames(scenes)

\* C2 witness: a registry holds two entities and the latest call, a
\* change_name to a name in use, failed.
C2_Witness ==
    /\ last.op \in {"Light.change_name", "Object.change_name"}
    /\ last.pre
    /\ last.err # "ok"
    /\ Len(lights) = 2
    /\ Len(objects) = 2

\* C3: a construction or change_name with a name already in the registry fails
\* with DuplicateNameError and leaves the registries, the id counters and every
\* name unchanged.
C3_DuplicateNameError ==
    [][(last'.op \in NameOps /\ last'.pre) =>
          /\ last'.err = "DuplicateNameError"
          /\ UNCHANGED <<lights, cameras, objects, scenes, next_memory_id>>]_vars

\* C4: add_object / add_light of an entity already in the scene's membership
\* list fails with AlreadyInSceneError and leaves the membership list and the
\* entity's scene list unchanged; no entity is twice in one membership list.
C4_AlreadyInSceneError ==
    [][/\ \A s \in DOMAIN scenes' :
             NoRepeats(scenes'[s].object_memory) /\ NoRepeats(scenes'[s].light_memory)
       /\ (last'.op \in AddObjectOps \cup AddLightOps /\ last'.pre) =>
             /\ last'.err = "AlreadyInSceneError"
             /\ UNCHANGED <<scenes, objects, lights>>]_vars

\* C5: remove_object / remove_light, called directly or through the entity's
\* remove_from_scene, of an entity that is not in the scene's membership list
\* fails with IDNotFoundError carrying the entity's id, and leaves the
\* membership lists and the entity's scene list unchanged.
C5_RemoveAbsent ==
    [][/\ (last'.op \in RemoveObjectOps
             /\ last'.b \notin Range(scenes[last'.a].object_memory)) =>
             /\ last'.err = "IDNotFoundError"
             /\ last'.errid = objects[last'.b].id
             /\ UNCHANGED <<scenes, objects, lights>>
       /\ (last'.op \in RemoveLightOps
             /\ last'.b \notin Range(scenes[last'.a].light_memory)) =>
             /\ last'.err = "IDNotFoundError"
             /\ last'.errid = lights[last'.b].id
             /\ UNCHANGED <<scenes, objects, lights>>]_vars

\* C5 witness: Object.remove_from_scene has just failed for an object that is
\* in another scene but not in this one.
C5_Witness ==
    /\ last.op = "Object.remove_from_scene"
    /\ last.err = "IDNotFoundError"
    /\ last.errid = objects[last.b].id
    /\ last.b \notin Range(scenes[last.a].object_memory)
    /\ objects[last.b].scenes # <<>>

\* C6: the active-camera slot of a scene holds one camera or none;
\* Camera.remove_from_scene fails and leaves the slot unchanged when the slot
\* holds another camera or none, and empties the slot when it holds the camera.
C6_CameraRemove ==
    [][/\ \A s \in DOMAIN scenes' :
             scenes'[s].active_camera \in {None} \cup DOMAIN cameras'
       /\ last'.op = "Camera.remove_from_scene" =>
             IF scenes[last'.a].active_camera = last'.b
                THEN /\ last'.err = "ok"
                     /\ scenes' = [scenes EXCEPT ![last'.a].active_camera = None]
                ELSE /\ last'.err # "ok"
                     /\ scenes' = scenes]_vars

\* C6 witness: Camera.remove_from_scene has just failed on a scene whose
\* active camera is a different camera.
C6_Witness ==
    /\ last.op = "Camera.remove_from_scene"
    /\ last.err = "NoScenePermission"
    /\ scenes[last.a].active_camera \notin {None, last.b}

\* C7 as stated: adding a camera to a scene of which it already is the active
\* camera fails.
C7_AddActiveCameraFails ==
    (last.op \in SetCameraOps /\ last.pre) => last.err # "ok"

\* C7 amended: Camera.add_to_scene / Scene.set_active_camera never fails; it
\* makes the camera the scene's active camera whatever the slot held, also
\* when the camera already is the active camera, and changes nothing else.
C7_AddCameraSucceeds ==
    [][last'.op \in SetCameraOps =>
          /\ last'.err = "ok"
          /\ scenes' = [scenes EXCEPT ![last'.a].active_camera = last'.b]
          /\ UNCHANGED <<lights, cameras, objects>>]_vars

\* C7 witness: Camera.add_to_scene has just returned normally for the camera
\* that already was the scene's active camera.
C7_Witness ==
    /\ last.op = "Camera.add_to_scene"
    /\ last.pre
    /\ last.err = "ok"
    /\ scenes[last.a].active_camera = last.b

\* C8: render_scene on a scene without active camera fails with
\* NoActiveCamera, no call reaches the drawing surface, the background is
\* not changed and no object (no scratch buffer) is changed.
C8_NoActiveCamera ==
    [][(last'.op = "Scene.render_scene" /\ scenes[last'.a].active_camera = None) =>
          /\ last'.err = "NoActiveCamera"
          /\ calls' = <<>>
          /\ UNCHANGED <<objects, bgcolor>>]_vars

\* C8 witness: render_scene has just failed with NoActiveCamera on a scene
\* that holds an object.
C8_Witness ==
    /\ last.op = "Scene.render_scene"
    /\ last.err = "NoActiveCamera"
    /\ scenes[last.a].object_memory # <<>>
    /\ calls = <<>>

\* C9: render_scene with a mode outside {'wire', 'face'} on a scene that has
\* an active camera fails, whatever the scene holds.
C9_InvalidModeFails ==
    (last.op = "Scene.render_scene" /\ last.pre /\ last.name \notin {"wire", "face"})
        => last.err # "ok"

\* The distance get_distance_to_camera returns for object o and the active
\* camera of scene s
SceneDistance(s, o) == distance_to_camera(objects[o], cameras[scenes[s].active_camera])

\* C10: in the calls of one render_scene no draw call of an object comes after
\* a draw call of an object that is strictly nearer to the active camera.
C10_FarthestFirst ==
    (last.op = "Scene.render_scene" /\ last.pre) =>
        \A i, j \in DOMAIN calls :
            (i < j /\ calls[i].call \in DrawCalls /\ calls[j].call \in DrawCalls) =>
                ~(SceneDistance(last.a, calls[j].obj) > SceneDistance(last.a, calls[i].obj))

\* C10 witness: a render has drawn two objects, and the one drawn first is
\* strictly farther and later in the scene's object list than the other.
C10_Witness ==
    /\ last.op = "Scene.render_scene"
    /\ last.err = "ok"
    /\ \E i, j \in DOMAIN calls :
          /\ i < j
          /\ calls[i].call \in DrawCalls
          /\ calls[j].call \in DrawCalls
          /\ SceneDistance(last.a, calls[i].obj) > SceneDistance(last.a, calls[j].obj)
          /\ scenes[last.a].object_memory = <<calls[j].obj, calls[i].obj>>

\* The active camera of the scene the latest call was about
LastCamera == cameras[scenes[last.a].active_camera]

\* The camera-space vertex with index v of object o, as the latest render
\* left it in the object's scratch buffer
SeenVertex(o, v) == objects[o].camera_perspective_vertex_array[v]

\* The depth of a camera-space vertex relative to a camera
RelativeDepth(vert, camera) == vert[3] - camera.position[3]

\* The sum, over the first n vertices of face f of object o, of the depth
\* relative to the active camera
RECURSIVE RelativeDepthSum(_, _, _)
RelativeDepthSum(o, f, n) ==
    IF n = 0 THEN 0
    ELSE RelativeDepth(SeenVertex(o, objects[o].face_array[f][n]), LastCamera)
         + RelativeDepthSum(o, f, n - 1)

FaceSize(o, f) == Len(objects[o].face_array[f])

\* Face f of object o has a strictly greater mean depth than face g
Deeper(o, f, g) ==
    RelativeDepthSum(o, f, FaceSize(o, f)) * FaceSize(o, g)
        > RelativeDepthSum(o, g, FaceSize(o, g)) * FaceSize(o, f)

\* C11: in face mode the filled polygons of one object are drawn in order of
\* descending mean camera-space depth relative to the camera: no face is
\* drawn after a face of the same object with a strictly smaller mean depth.
C11_DeepestFaceFirst ==
    (last.op = "Scene.render_scene" /\ last.pre /\ last.name = "face") =>
        \A i, j \in DOMAIN calls :
            (/\ i < j
             /\ calls[i].call = "polygon"
             /\ calls[j].call = "polygon"
             /\ calls[i].obj = calls[j].obj) =>
                ~Deeper(calls[i].obj, calls[j].face, calls[i].face)

\* C11 witness: a face-mode render has drawn two faces of one object, the
\* first strictly deeper than the second and later in the object's face list.
C11_Witness ==
    /\ last.op = "Scene.render_scene"
    /\ last.name = "face"
    /\ last.err = "ok"
    /\ \E i, j \in DOMAIN calls :
          /\ i < j
          /\ calls[i].call = "polygon"
          /\ calls[j].call = "polygon"
          /\ calls[i].obj = calls[j].obj
          /\ calls[i].face > calls[j].face
          /\ Deeper(calls[i].obj, calls[i].face, calls[j].face)

\* A camera-space vertex is kept: its depth relative to the camera is above
\* the near plane and not above the far plane
InView(vert, camera) ==
    /\ RelativeDepth(vert, camera) > camera.near_plane
    /\ RelativeDepth(vert, camera) <= camera.far_plane

\* How many vertices of face f of object o are kept
Surviving(o, f) ==
    Cardinality({k \in DOMAIN objects[o].face_array[f] :
                    InView(SeenVertex(o, objects[o].face_array[f][k]), LastCamera)})

\* The faces of object o the latest render drew
DrawnFaces(o) ==
    {calls[i].face : i \in {k \in DOMAIN calls : calls[k].call \in DrawCalls /\ calls[k].obj = o}}

\* C12: a vertex is culled exactly when its depth relative to the camera is
\* <= near_plane or > far_plane; in both modes a draw call joins exactly the
\* kept vertices of its face and there are at least 3 of them, so a face with
\* fewer than 3 kept vertices (all behind the near plane, all beyond the far
\* plane) has no draw call.
C12_Culling ==
    (last.op = "Scene.render_scene" /\ last.pre /\ last.name \in {"wire", "face"}) =>
        /\ \A i \in DOMAIN calls :
              calls[i].call \in DrawCalls =>
                  /\ calls[i].n = Surviving(calls[i].obj, calls[i].face)
                  /\ calls[i].n >= 3
        /\ \A o \in Range(scenes[last.a].object_memory) :
              \A f \in DOMAIN objects[o].face_array :
                  Surviving(o, f) < 3 => f \notin DrawnFaces(o)

\* C12 witness: a render has drawn a face of four vertices through the three
\* that are kept, has skipped a face of the same object with two kept
\* vertices, and has drawn nothing of a visible object beyond the far plane.
C12_Witness ==
    /\ last.op = "Scene.render_scene"
    /\ last.err = "ok"
    /\ last.name \in {"wire", "face"}
    /\ \E i \in DOMAIN calls :
          /\ calls[i].call \in DrawCalls
          /\ calls[i].n = 3
          /\ FaceSize(calls[i].obj, calls[i].face) = 4
          /\ \E f \in DOMAIN objects[calls[i].obj].face_array :
                Surviving(calls[i].obj, f) = 2 /\ f \notin DrawnFaces(calls[i].obj)
    /\ \E o \in Range(scenes[last.a].object_memory) :
          /\ objects[o].visible
          /\ DrawnFaces(o) = {}
          /\ \A v \in DOMAIN objects[o].camera_perspective_vertex_array :
                RelativeDepth(SeenVertex(o, v), LastCamera) > LastCamera.far_plane

\* C13: render_scene skips an object whose visible flag is false without any
\* effect: no draw call belongs to it and nothing of it, its scratch
\* camera-space buffer included, is changed by the render.
C13_InvisibleUntouched ==
    [][(last'.op = "Scene.render_scene" /\ last'.pre) =>
          \A o \in Range(scenes[last'.a].object_memory) :
              ~objects[o].visible =>
                  /\ objects'[o] = objects[o]
                  /\ \A i \in DOMAIN calls' : calls'[i].obj # o]_vars

InClamp(v, clamp) == v >= clamp[1] /\ v <= clamp[2]

\* C14: a camera constructed with a clamp range on an axis and an initial
\* rotation inside the range keeps its rotation on that axis within the range
\* through every set_rotation and rotate.  Every camera of PoseSpec is
\* constructed with rotation 0, x_clamp = PXClamp and z_clamp = PZClamp, and
\* with y_clamp = PYClamp or without y_clamp.
C14_RotationWithinClamps ==
    \A c \in DOMAIN cameras :
        /\ InClamp(cameras[c].rotation[1], PXClamp)
        /\ cameras[c].y_clamp # <<>> => InClamp(cameras[c].rotation[2], PYClamp)
        /\ InClamp(cameras[c].rotation[3], PZClamp)

C15Angles == {90, -90, 180}

\* Object.rotate of obj by angle on one axis, then by the negated angle
RotatedThereAndBack(obj, axis, angle) ==
    LET v == OneAxis(axis, angle)
        w == OneAxis(axis, 0 - angle)
        there == object_rotate(obj, v[1], v[2], v[3]).obj
    IN  object_rotate(there, w[1], w[2], w[3]).obj

\* C15: for an object in any state, Object.rotate by an angle on a single
\* axis followed by Object.rotate by the negated angle on the same axis
\* restores the rotation, the transformed buffer and the translated buffer.
C15_RotateBackRestores ==
    \A o \in DOMAIN objects, axis \in 1..3, angle \in C15Angles :
        LET back == RotatedThereAndBack(objects[o], axis, angle)
        IN  /\ back.rotation = objects[o].rotation
            /\ back.transformed_vertex_array = objects[o].transformed_vertex_array
            /\ back.translated_vertex_array = objects[o].translated_vertex_array

\* C15 witness: Object.rotate has just turned a scaled, moved object, and a
\* further quarter turn on the x axis would change both of its buffers.
C15_Witness ==
    /\ last.op = "Object.rotate"
    /\ last.err = "ok"
    /\ objects[last.a].rotation # <<0, 0, 0>>
    /\ objects[last.a].scale = <<2, 1, 1>>
    /\ objects[last.a].position[3] # 0
    /\ LET there == object_rotate(objects[last.a], <<90>>, <<>>, <<>>).obj
       IN  /\ there.transformed_vertex_array # objects[last.a].transformed_vertex_array
           /\ there.translated_vertex_array # objects[last.a].translated_vertex_array

\* C18: constructing an Object without a material, under a name that is
\* free, succeeds: the object is registered under that name and holds a
\* Material.
C18_DefaultMaterial ==
    [][(/\ last'.op = "Object.__init__"
        /\ IsNone(last'.args.material)
        /\ ~NameTaken(objects, last'.name)) =>
            /\ last'.err = "ok"
            /\ Len(objects') = Len(objects) + 1
            /\ objects'[Len(objects')].name = last'.name
            /\ objects'[Len(objects')].material.diffuse_color = White]_vars

\* A value as a clamp (<<>> for none) leaves it
Clamped(v, clamp) ==
    IF clamp = <<>> THEN v
    ELSE IF v < clamp[1][1] THEN clamp[1][1]
    ELSE IF v > clamp[1][2] THEN clamp[1][2]
    ELSE v

\* Each axis with an argument holds the (clamped) argument, each axis without
\* one holds what it held
AxesSet(old, new, args, clamps) ==
    \A i \in 1..3 :
        IF args[i] # <<>> THEN new[i] = Clamped(args[i][1], clamps[i]) ELSE new[i] = old[i]

NoClamps == <<<<>>, <<>>, <<>>>>

\* C19: Camera.set_rotation, Camera.set_position, Object.set_position and
\* Object.set_rotation set each axis for which a value is given to that value
\* (clamped by the camera's clamp of the axis, for the camera's rotation),
\* the value 0 included, and leave the other axes unchanged.
C19_SetGivenAxes ==
    [][/\ last'.op = "Camera.set_rotation" =>
             AxesSet(cameras[last'.a].rotation, cameras'[last'.a].rotation, last'.args,
                     <<cameras[last'.a].x_clamp, cameras[last'.a].y_clamp,
                       cameras[last'.a].z_clamp>>)
       /\ last'.op = "Camera.set_position" =>
             AxesSet(cameras[last'.a].position, cameras'[last'.a].position, last'.args,
                     NoClamps)
       /\ (last'.op = "Object.set_position" /\ last'.err = "ok") =>
             AxesSet(objects[last'.a].position, objects'[last'.a].position, last'.args,
                     NoClamps)
       /\ (last'.op = "Object.set_rotation" /\ last'.err = "ok") =>
             AxesSet(objects[last'.a].rotation, objects'[last'.a].rotation, last'.args,
                     NoClamps)]_vars

ScaledVertex(v, s) == << v[1] * s[1], v[2] * s[2], v[3] * s[3] >>

\* A vertex turned about the origin, on one axis
TurnedX(v, a) == << v[1], v[2] * Cos(a) + v[3] * Sin(a), v[3] * Cos(a) - v[2] * Sin(a) >>
TurnedY(v, a) == << v[1] * Cos(a) + v[3] * Sin(a), v[2], v[3] * Cos(a) - v[1] * Sin(a) >>
TurnedZ(v, a) == << v[1] * Cos(a) + v[2] * Sin(a), v[2] * Cos(a) - v[1] * Sin(a), v[3] >>

\* The original buffer scaled per axis, then turned on x, on y and on z
ExpectedTransformed(obj) ==
    [i \in DOMAIN obj.original_vertex_array |->
        TurnedZ(TurnedY(TurnedX(ScaledVertex(obj.original_vertex_array[i], obj.scale),
                                obj.rotation[1]),
                        obj.rotation[2]),
                obj.rotation[3])]

\* The transformed buffer offset by the position: x and y added, the stored
\* z subtracted
ExpectedTranslated(obj) ==
    [i \in DOMAIN obj.transformed_vertex_array |->
        << obj.transformed_vertex_array[i][1] + obj.position[1],
           obj.transformed_vertex_array[i][2] + obj.position[2],
           obj.transformed_vertex_array[i][3] - obj.position[3] >>]

BuffersFollowPose(obj) ==
    /\ obj.transformed_vertex_array = ExpectedTransformed(obj)
    /\ obj.translated_vertex_array = ExpectedTranslated(obj)

PoseOps == {"Object.__init__", "Object.set_position", "Object.translate",
            "Object.set_rotation", "Object.rotate", "Object.set_scale", "Object.scale",
            "Object.update_vertex_array"}

\* C20: after construction and after every call of set_position, translate,
\* set_rotation, rotate, set_scale, scale and update_vertex_array that
\* returns normally, the transformed buffer is the original buffer scaled per
\* axis and rotated about the origin on x, y, z in that order, and the
\* translated buffer is the transformed buffer offset by the position (x and
\* y added, the stored z subtracted); only update_vertex_array changes the
\* original buffer.
C20_BuffersFollowPose ==
    [][/\ (last'.op \in PoseOps /\ last'.err = "ok") =>
             BuffersFollowPose(objects'[last'.a])
       /\ \A o \in DOMAIN objects :
             objects'[o].original_vertex_array # objects[o].original_vertex_array =>
                 last'.op = "Object.update_vertex_array" /\ last'.a = o]_vars

\* C20 witness: a transform method has just returned normally on an object
\* with a scale that differs between the axes, a rotation on two axes and a
\* position off the origin in x and in z.
C20_Witness ==
    /\ last.op \in PoseOps \ {"Object.__init__"}
    /\ last.err = "ok"
    /\ objects[last.a].scale = <<2, 1, 1>>
    /\ objects[last.a].rotation[1] # 0
    /\ objects[last.a].rotation[2] # 0
    /\ objects[last.a].position[1] # 0
    /\ objects[last.a].position[3] # 0
    /\ BuffersFollowPose(objects[last.a])

\* C17: a light constructed with an explicit intensity keeps exactly that
\* intensity, 0.0 included; only an omitted intensity gives 1.0.
C17_IntensityKept ==
    [][(last'.op = "Light.__init__" /\ last'.err = "ok") =>
          lights'[last'.a].intensity =
              (IF last'.args.intensity = <<>> THEN IntensityOne
               ELSE last'.args.intensity[1])]_vars

ChannelsInRange(color) == \A i \in 1..3 : color[i] >= 0 /\ color[i] <= 255

\* the light stands on the line through the face's first vertex along the
\* face's normal, on the side the normal points to
DirectlyFacing(o, f, light) ==
    LET n == objects[o].face_normals[f]
        v == objects[o].camera_perspective_vertex_array[objects[o].face_array[f][1]]
        d == [i \in 1..3 |-> light.position[i] - v[i]]
    IN  /\ n[2] * d[3] - n[3] * d[2] = 0
        /\ n[3] * d[1] - n[1] * d[3] = 0
        /\ n[1] * d[2] - n[2] * d[1] = 0
        /\ n[1] * d[1] + n[2] * d[2] + n[3] * d[3] > 0

\* min(255, diffuseColor * intensity * lightColor / 255), per channel
SingleLightColor(material, light) ==
    [i \in 1..3 |->
        FracMin(Whole(255),
                Frac(material.diffuse_color[i] * light.intensity * light.color[i],
                     IntensityOne * 255))]

\* draw call k of the last render_scene: one light in the scene, zero ambient
\* light, a material without specular colour, the face directly facing the light
SingleLightCase(k) ==
    /\ Len(scenes[last.a].light_memory) = 1
    /\ scenes[last.a].ambient_light = <<0, 0, 0>>
    /\ objects[calls[k].obj].material.specular_color = <<0, 0, 0>>
    /\ DirectlyFacing(calls[k].obj, calls[k].face, lights[scenes[last.a].light_memory[1]])

Rendered == last.op = "Scene.render_scene" /\ last.err = "ok"

\* C16: after render_scene, every channel of the fill colour of every drawn
\* face lies in [0, 255]; and with a single light, zero ambient light and zero
\* specular, a face directly facing the light is filled with
\* min(255, diffuseColor * intensity * lightColor / 255) per channel (as
\* handed to the surface: truncated to an integer).
C16_LightingColor ==
    Rendered =>
        \A k \in DOMAIN calls : calls[k].call = "polygon" =>
            /\ ChannelsInRange(calls[k].color)
            /\ SingleLightCase(k) =>
                   LET expected == SingleLightColor(objects[calls[k].obj].material,
                                                    lights[scenes[last.a].light_memory[1]])
                   IN  calls[k].color = [i \in 1..3 |-> int(expected[i])]

\* What a render or a distance query must leave alone in an object
Persistent(obj) ==
    <<obj.original_vertex_array, obj.transformed_vertex_array, obj.translated_vertex_array,
      obj.position, obj.rotation, obj.scale, obj.visible, obj.material, obj.scenes>>

\* The translated buffer of obj seen from camera: rotated about the camera
\* position by the negated camera rotation, in the camera's rotation order
FreshScratch(obj, camera) ==
    camera_rotate(obj.translated_vertex_array, camera, Len(camera.rotation_order))

\* The calls that store a scratch buffer
ScratchOps == {"Scene.render_scene", "Object.get_distance_to_camera"}

SentAfter(kind) == Cardinality({i \in DOMAIN calls' : calls'[i].call = kind})

\* C22: a render_scene that completes sends to the surface one clear first,
\* then the background colour exactly when the surface's background differed
\* from the scene's ambient light, then the draw calls, and one update last.
C22_SurfaceOrder ==
    [][(last'.op = "Scene.render_scene" /\ last'.err = "ok") =>
          LET n == Len(calls')
              first == IF bgcolor # scenes[last'.a].ambient_light THEN 3 ELSE 2
          IN  /\ n >= first
              /\ calls'[1].call = "clear"
              /\ SentAfter("clear") = 1
              /\ calls'[n].call = "update"
              /\ SentAfter("update") = 1
              /\ SentAfter("bgcolor") = first - 2
              /\ first = 3 => calls'[2].call = "bgcolor"
              /\ \A i \in first..(n - 1) : calls'[i].call \in DrawCalls]_vars

\* C22 witness: a completed render drew at least two faces and did not set
\* the background, which an earlier render had set to the scene's ambient light.
C22_Witness ==
    /\ last.op = "Scene.render_scene"
    /\ last.err = "ok"
    /\ bgcolor = scenes[last.a].ambient_light
    /\ Len(calls) >= 4
    /\ calls[2].call \in DrawCalls
    /\ calls[3].call \in DrawCalls

\* cross product of the edges from the first to the second and to the third
\* of three points
EdgeCross(p, q, r) ==
    LET u == [i \in 1..3 |-> q[i] - p[i]]
        w == [i \in 1..3 |-> r[i] - p[i]]
    IN  << u[2] * w[3] - u[3] * w[2], u[3] * w[1] - u[1] * w[3], u[1] * w[2] - u[2] * w[1] >>

\* the normal of face f of object o taken from the camera-space buffer
CameraSpaceNormal(o, f) ==
    LET face == objects[o].face_array[f]
    IN  EdgeCross(SeenVertex(o, face[1]), SeenVertex(o, face[2]), SeenVertex(o, face[3]))

\* C23: after a render in face mode, the normal kept for every face of a
\* rendered object is the normal of the face's camera-space vertices, the
\* buffer the lighting takes the face's first vertex from.
C23_NormalInCameraSpace ==
    (last.op = "Scene.render_scene" /\ last.err = "ok" /\ last.name = "face") =>
        \A o \in Range(scenes[last.a].object_memory) :
            objects[o].visible =>
                \A f \in DOMAIN objects[o].face_array :
                    objects[o].face_normals[f] = CameraSpaceNormal(o, f)

\* The translated buffer of an object with the transformed buffer of obj that
\* was constructed with position p: Object(..., position = p) puts vertex v
\* at v + p (see C20, ExpectedTranslated, for the stored position <<x, y, -z>>)
ConstructedAt(obj, p) ==
    [i \in DOMAIN obj.transformed_vertex_array |->
        << obj.transformed_vertex_array[i][1] + p[1],
           obj.transformed_vertex_array[i][2] + p[2],
           obj.transformed_vertex_array[i][3] + p[3] >>]

AllGiven(args) == \A i \in 1..3 : args[i] # <<>>

\* C24: set_position(x, y, z) leaves the translated buffer that constructing
\* the object with position (x, y, z) gives, and translate(z = dz) moves the
\* translated buffer along z the way a constructor z larger by dz does.
C24_OneZConvention ==
    [][/\ (last'.op = "Object.set_position" /\ last'.err = "ok" /\ AllGiven(last'.args)) =>
             objects'[last'.a].translated_vertex_array =
                 ConstructedAt(objects'[last'.a],
                               <<last'.args[1][1], last'.args[2][1], last'.args[3][1]>>)
       /\ (last'.op = "Object.translate" /\ last'.err = "ok" /\ last'.args[3] # <<>>) =>
             \A i \in DOMAIN objects[last'.a].translated_vertex_array :
                 objects'[last'.a].translated_vertex_array[i][3] =
                     objects[last'.a].translated_vertex_array[i][3] + last'.args[3][1]]_vars

\* The lists of objs, scns and lits agree: a scene is in an entity's scene
\* list as many times as the entity is in the scene's membership list
BackReferencesAgree(objs, lits, scns) ==
    \A s \in DOMAIN scns :
        /\ \A o \in DOMAIN objs :
               Count(objs[o].scenes, s) = Count(scns[s].object_memory, o)
        /\ \A l \in DOMAIN lits :
               Count(lits[l].scenes, s) = Count(scns[s].light_memory, l)

MembershipOps == AddObjectOps \cup AddLightOps \cup RemoveObjectOps \cup RemoveLightOps

\* C25: after every call, successful or failed, a scene is in an object's
\* (light's) scene list exactly as many times as the object (light) is in the
\* scene's membership list; and an add or remove on one scene leaves the
\* membership lists of every other scene as they were.
C25_BackReferences ==
    [][/\ BackReferencesAgree(objects', lights', scenes')
       /\ (last'.op \in MembershipOps) =>
             \A t \in DOMAIN scenes \ {last'.a} :
                 /\ scenes'[t].object_memory = scenes[t].object_memory
                 /\ scenes'[t].light_memory = scenes[t].light_memory]_vars

\* C25 witness: an object was just removed from one scene while it stays in
\* another, a second object is in both scenes, and a light is in a scene.
C25_Witness ==
    /\ last.op \in RemoveObjectOps
    /\ last.err = "ok"
    /\ \E t \in DOMAIN scenes \ {last.a} :
          /\ objects[last.b].scenes = <<t>>
          /\ \E o \in DOMAIN objects \ {last.b} : Len(objects[o].scenes) = 2
    /\ \E l \in DOMAIN lights : lights[l].scenes # <<>>

====
